---- MODULE Spec2Model ----
(***************************************************************************)
(* Model of sales_analysis_streamlit.py: the synthetic data generator      *)
(* generate_sample_data (memoized by st.cache_data) and the query part of  *)
(* main (filter, KPIs, grouped aggregates, rankings, growth).              *)
(*                                                                         *)
(* Dates are day ordinals counted from 2022-01-01 (ordinal 0).  Money is   *)
(* kept in whole currency units, so sums are exact.  numpy's global        *)
(* generator is a deterministic stream fixed by np.random.seed; it is      *)
(* modelled by a small linear congruential generator whose starting point  *)
(* is one of NumGenerators alternatives chosen in Init, standing for the   *)
(* draws the real generator would produce.                                 *)
(***************************************************************************)
EXTENDS Integers, Sequences, FiniteSets, TLC

VARIABLES
    sessions,            \* script threads (one per browser session)
    window,              \* first and last day of the window generated
    bitgen,              \* which pseudo-random stream seed 42 yields
    rng,                 \* state of numpy's process-wide generator
    cacheGen,            \* identity of the function's current Cache object
    cacheVal,            \* per Cache object: the memoized result, if any
    lock,                \* per Cache object: holder of the compute lock (0: free)
    clears,              \* number of cache clears so far
    runs,                \* number of times the function body was entered
    pc,                  \* per session: position in the script
    myCache,             \* per session: Cache object the call works on
    i,                   \* per session: loop index of the generation loop
    data,                \* per session: the list `data` being built
    df,                  \* per session: the data frame returned
    start_date, end_date, selected_categories,   \* widget values
    filtered_df, total_sales, total_orders, avg_order_value, unique_products,
    top_products, top_quantity, category_perf, yearly_sales, growth,
    raised               \* exception raised by the last script run, if any

genVars   == <<sessions, window, bitgen, rng, cacheGen, cacheVal, lock, clears,
               runs, pc, myCache, i, data, df>>
queryVars == <<start_date, end_date, selected_categories, filtered_df,
               total_sales, total_orders, avg_order_value, unique_products,
               top_products, top_quantity, category_perf, yearly_sales,
               growth, raised>>
vars      == <<genVars, queryVars>>

----------------------------------------------------------------------------
(* Bounds of the model *)

NumGenerators == 2      \* alternative pseudo-random streams
NumSessions == 3        \* concurrent sessions in the cache specifications
ShortWindowDays == 4    \* days generated per run in the short-window specifications
MaxClears == 1          \* cache clears in SpecClear
NumDatePicks == 4       \* dates offered to the date-range widget
FactorRes == 5          \* December factor drawn in steps of 1/(2*FactorRes)

----------------------------------------------------------------------------
(* Calendar: pd.date_range(start='2022-01-01', end='2023-12-31', freq='D') *)

EpochYear == 2022
WindowStart == <<2022, 1, 1>>
WindowEnd == <<2023, 12, 31>>
ShortWindowStart == <<2022, 11, 30>>

IsLeap(y) == (y % 4 = 0 /\ y % 100 # 0) \/ y % 400 = 0

DaysInMonth(y, m) ==
    IF m = 2 THEN (IF IsLeap(y) THEN 29 ELSE 28)
    ELSE IF m \in {4, 6, 9, 11} THEN 30 ELSE 31

RECURSIVE DaysBeforeMonth(_, _)
DaysBeforeMonth(y, m) ==
    IF m = 1 THEN 0 ELSE DaysBeforeMonth(y, m - 1) + DaysInMonth(y, m - 1)

DaysInYear(y) == IF IsLeap(y) THEN 366 ELSE 365

RECURSIVE DaysBeforeYear(_)
DaysBeforeYear(y) ==
    IF y = EpochYear THEN 0 ELSE DaysBeforeYear(y - 1) + DaysInYear(y - 1)

\* day ordinal of a calendar date <<year, month, day>>
Ordinal(ymd) == DaysBeforeYear(ymd[1]) + DaysBeforeMonth(ymd[1], ymd[2]) + ymd[3] - 1

RECURSIVE YearFrom(_, _)
YearFrom(y, n) == IF n < DaysInYear(y) THEN y ELSE YearFrom(y + 1, n - DaysInYear(y))

\* .dt.year
YearOf(n) == YearFrom(EpochYear, n)

RECURSIVE MonthFrom(_, _, _)
MonthFrom(y, m, n) ==
    IF n < DaysInMonth(y, m) THEN m ELSE MonthFrom(y, m + 1, n - DaysInMonth(y, m))

\* .dt.month
MonthOf(n) == MonthFrom(YearOf(n), 1, n - DaysBeforeYear(YearOf(n)))

MonthNames == <<"January", "February", "March", "April", "May", "June", "July",
                "August", "September", "October", "November", "December">>

\* freq='D': every day from first to last, both included
date_range(first, last) == [k \in 1..(last - first + 1) |-> first + k - 1]

----------------------------------------------------------------------------
(* The catalogue *)

product_categories == <<"Electronics", "Clothing", "Home & Kitchen", "Books", "Beauty">>

products ==
    [c \in {product_categories[k] : k \in 1..Len(product_categories)} |->
        CASE c = "Electronics"    -> <<"Wireless Earbuds", "Smartphone", "Laptop">>
          [] c = "Clothing"       -> <<"T-Shirt", "Jeans", "Jacket">>
          [] c = "Home & Kitchen" -> <<"Coffee Maker", "Blender", "Air Fryer">>
          [] c = "Books"          -> <<"Python Crash Course", "Deep Learning", "The Alchemist">>
          [] c = "Beauty"         -> <<"Face Cream", "Shampoo", "Perfume">>]

\* Python's string order, in which groupby sorts its keys
SortedCategories == <<"Beauty", "Books", "Clothing", "Electronics", "Home & Kitchen">>

SortedProducts ==
    <<"Air Fryer", "Blender", "Coffee Maker", "Deep Learning", "Face Cream",
      "Jacket", "Jeans", "Laptop", "Perfume", "Python Crash Course", "Shampoo",
      "Smartphone", "T-Shirt", "The Alchemist", "Wireless Earbuds">>

----------------------------------------------------------------------------
(* numpy's global generator *)

Seed == 42
RngModulus == 65537
RngMultiplier == 75
RngIncrement == 74
GeneratorStride == 7919

\* np.random.seed(42): the state depends on the seed alone
SeedState(g) == (Seed + g * GeneratorStride) % RngModulus

\* one raw draw advances the state
NextRng(s) == (RngMultiplier * s + RngIncrement) % RngModulus

QuantityLow == 1
QuantityHigh == 5
PriceLow == 10
PriceHigh == 500

\* np.random.choice(seq): a uniformly chosen element
Choice(seq, s) == seq[(s % Len(seq)) + 1]

\* np.random.randint(1, 5): low included, high excluded
RandInt(s) == QuantityLow + (s % (QuantityHigh - QuantityLow))

\* np.random.uniform(10, 500): low included, high excluded
UniformPrice(s) == PriceLow + (s % (PriceHigh - PriceLow))

\* np.random.uniform(1.5, 3) as the fraction num / den
FactorDen == 2 * FactorRes
UniformFactorNum(s) == 3 * FactorRes + (s % (3 * FactorRes))

\* int(quantity * factor): truncation of a positive product
SeasonalQuantity(quantity, num) == (quantity * num) \div FactorDen

\* variant: the total is taken before the December factor is applied
GenerateOneStaleTotal(date, s) ==
    LET s1 == NextRng(s)
        category == Choice(product_categories, s1)
        s2 == NextRng(s1)
        product == Choice(products[category], s2)
        s3 == NextRng(s2)
        base == RandInt(s3)
        s4 == NextRng(s3)
        unit_price == UniformPrice(s4)
        december == MonthOf(date) = 12
        s5 == IF december THEN NextRng(s4) ELSE s4
        quantity == IF december THEN SeasonalQuantity(base, UniformFactorNum(s5))
                    ELSE base
    IN [row |-> [OrderDate |-> date,
                 ProductCategory |-> category,
                 ProductName |-> product,
                 Quantity |-> quantity,
                 UnitPrice |-> unit_price,
                 TotalSales |-> base * unit_price],
        rng |-> s5]

\* one iteration of the loop at lines 30-46, reading the generator at state s;
\* yields the appended row and the generator state left behind
GenerateOne(date, s) ==
    LET s1 == NextRng(s)
        category == Choice(product_categories, s1)
        s2 == NextRng(s1)
        product == Choice(products[category], s2)
        s3 == NextRng(s2)
        base == RandInt(s3)
        s4 == NextRng(s3)
        unit_price == UniformPrice(s4)
        december == MonthOf(date) = 12
        s5 == IF december THEN NextRng(s4) ELSE s4
        quantity == IF december THEN SeasonalQuantity(base, UniformFactorNum(s5))
                    ELSE base
    IN [row |-> [OrderDate |-> date,
                 ProductCategory |-> category,
                 ProductName |-> product,
                 Quantity |-> quantity,
                 UnitPrice |-> unit_price,
                 TotalSales |-> quantity * unit_price],
        rng |-> s5]

----------------------------------------------------------------------------
(* Data cleaning and time features, lines 48-60 *)

Indexed(rows) == [k \in 1..Len(rows) |-> <<k, rows[k]>>]
Unindexed(pairs) == [k \in 1..Len(pairs) |-> pairs[k][2]]

\* variant: duplicates judged on product and quantity alone
SameRowByProduct(a, b) == a.ProductName = b.ProductName /\ a.Quantity = b.Quantity

\* whether two rows are duplicates of each other: every column is compared
SameRow(a, b) == a = b

\* df.drop_duplicates(): a row goes when an earlier row equals it
drop_duplicates(rows) ==
    LET first(p) == \A j \in 1..(p[1] - 1) : ~SameRow(rows[j], p[2])
    IN Unindexed(SelectSeq(Indexed(rows), first))

\* df[(df['Quantity'] > 0) & (df['UnitPrice'] > 0)]
ValidRow(r) == r.Quantity > 0 /\ r.UnitPrice > 0
keep_valid(rows) == SelectSeq(rows, ValidRow)

\* YearMonth, Year, Month, MonthName
add_time_features(rows) ==
    [k \in 1..Len(rows) |->
        LET r == rows[k]
            y == YearOf(r.OrderDate)
            m == MonthOf(r.OrderDate)
        IN [OrderDate |-> r.OrderDate,
            ProductCategory |-> r.ProductCategory,
            ProductName |-> r.ProductName,
            Quantity |-> r.Quantity,
            UnitPrice |-> r.UnitPrice,
            TotalSales |-> r.TotalSales,
            YearMonth |-> <<y, m>>,
            Year |-> y,
            Month |-> m,
            MonthName |-> MonthNames[m]]]

CleanFrame(rows) == add_time_features(keep_valid(drop_duplicates(rows)))

----------------------------------------------------------------------------
(* Query operators of main, lines 73-209 *)

RECURSIVE SumRange(_, _, _, _)
SumRange(rows, col, lo, hi) ==
    IF lo > hi THEN 0
    ELSE IF lo = hi THEN rows[lo][col]
    ELSE LET mid == (lo + hi) \div 2
         IN SumRange(rows, col, lo, mid) + SumRange(rows, col, mid + 1, hi)

\* Series.sum(); 0 for an empty series
SumCol(rows, col) == SumRange(rows, col, 1, Len(rows))

\* df['OrderDate'].min() / .max()
MinDate(rows) == CHOOSE d \in {rows[k].OrderDate : k \in 1..Len(rows)} :
                    \A k \in 1..Len(rows) : d <= rows[k].OrderDate
MaxDate(rows) == CHOOSE d \in {rows[k].OrderDate : k \in 1..Len(rows)} :
                    \A k \in 1..Len(rows) : d >= rows[k].OrderDate

\* df['ProductCategory'].unique()
UniqueCategories(rows) == {rows[k].ProductCategory : k \in 1..Len(rows)}

\* variant: the end date is excluded
InFilterOpenEnd(r, from, to, cats) ==
    r.OrderDate >= from /\ r.OrderDate < to /\ r.ProductCategory \in cats

\* the row mask of lines 92-96
InFilter(r, from, to, cats) ==
    r.OrderDate >= from /\ r.OrderDate <= to /\ r.ProductCategory \in cats

FilterRows(rows, from, to, cats) ==
    LET keep(r) == InFilter(r, from, to, cats)
    IN SelectSeq(rows, keep)

\* filtered_df['ProductName'].nunique()
NUnique(rows, col) == Cardinality({rows[k][col] : k \in 1..Len(rows)})

\* total_sales / total_orders on a numpy float: x / 0 is nan, not an exception
Divide(num, den) ==
    IF den = 0 THEN [kind |-> "nan", num |-> 0, den |-> 1]
    ELSE [kind |-> "value", num |-> num, den |-> den]

\* variant: every possible key, present or not
GroupKeysAll(rows, col, order) == order

\* groupby(col): the keys present, in sorted order
GroupKeys(rows, col, order) ==
    LET present(key) == \E k \in 1..Len(rows) : rows[k][col] = key
    IN SelectSeq(order, present)

\* the rows of one group
GroupRows(rows, col, key) ==
    LET member(r) == r[col] = key
    IN SelectSeq(rows, member)

\* groupby(col).agg(TotalSales sum, Quantity sum, OrderDate count)
GroupAgg(rows, col, order) ==
    LET keys == GroupKeys(rows, col, order)
    IN [g \in 1..Len(keys) |->
           LET grp == GroupRows(rows, col, keys[g])
           IN [key |-> keys[g],
               TotalSales |-> SumCol(grp, "TotalSales"),
               Quantity |-> SumCol(grp, "Quantity"),
               OrderCount |-> Len(grp)]]

\* the years a frame can hold, ascending
YearOrder(rows) ==
    IF rows = <<>> THEN <<>>
    ELSE LET lo == YearOf(MinDate(rows))
             hi == YearOf(MaxDate(rows))
         IN [k \in 1..(hi - lo + 1) |-> lo + k - 1]

\* variant: among equal values the one that comes last (keep='last')
TakeNextLast(rows, col) ==
    CHOOSE k \in 1..Len(rows) :
        /\ \A j \in 1..Len(rows) : rows[j][col] <= rows[k][col]
        /\ \A j \in (k + 1)..Len(rows) : rows[j][col] < rows[k][col]

\* position of the row nlargest takes next: the largest value, and among equal
\* values the one that comes first (keep='first')
TakeNext(rows, col) ==
    CHOOSE k \in 1..Len(rows) :
        /\ \A j \in 1..Len(rows) : rows[j][col] <= rows[k][col]
        /\ \A j \in 1..(k - 1) : rows[j][col] < rows[k][col]

Without(rows, k) == SubSeq(rows, 1, k - 1) \o SubSeq(rows, k + 1, Len(rows))

RECURSIVE nlargest(_, _, _)
nlargest(n, rows, col) ==
    IF n <= 0 \/ rows = <<>> THEN <<>>
    ELSE LET k == TakeNext(rows, col)
         IN <<rows[k]>> \o nlargest(n - 1, Without(rows, k), col)

TopRevenueN == 10
TopQuantityN == 5

\* lines 152-155
TopProducts(rows) ==
    LET agg == GroupAgg(rows, "ProductName", SortedProducts)
        view == [g \in 1..Len(agg) |-> [key |-> agg[g].key,
                                        TotalSales |-> agg[g].TotalSales,
                                        Quantity |-> agg[g].Quantity]]
    IN nlargest(TopRevenueN, view, "TotalSales")

\* line 187
TopQuantity(rows) ==
    LET agg == GroupAgg(rows, "ProductName", SortedProducts)
        view == [g \in 1..Len(agg) |-> [key |-> agg[g].key,
                                        Quantity |-> agg[g].Quantity]]
    IN nlargest(TopQuantityN, view, "Quantity")

\* lines 192-196
CategoryPerf(rows) == GroupAgg(rows, "ProductCategory", SortedCategories)

\* line 201
YearlySales(rows) ==
    LET agg == GroupAgg(rows, "Year", YearOrder(rows))
    IN [g \in 1..Len(agg) |-> [key |-> agg[g].key, TotalSales |-> agg[g].TotalSales]]

\* variant: the change is taken relative to the latest year
GrowthOfLatestBase(yearly) ==
    IF Len(yearly) > 1
    THEN LET last == yearly[Len(yearly)].TotalSales
             prev == yearly[Len(yearly) - 1].TotalSales
         IN [kind |-> "value", num |-> (last - prev) * 100, den |-> last]
    ELSE [kind |-> "insufficient", num |-> 0, den |-> 1]

\* lines 202-209: iloc[-1] and iloc[-2] of the yearly totals
GrowthOf(yearly) ==
    IF Len(yearly) > 1
    THEN LET last == yearly[Len(yearly)].TotalSales
             prev == yearly[Len(yearly) - 1].TotalSales
         IN [kind |-> "value", num |-> (last - prev) * 100, den |-> prev]
    ELSE [kind |-> "insufficient", num |-> 0, den |-> 1]

----------------------------------------------------------------------------
(* st.cache_data around generate_sample_data, lines 16-60 *)

\* line 19: the dates the loop runs over
dates == date_range(window[1], window[2])

NoEntry == [has |-> FALSE, value |-> <<>>]
CacheIds == 0..MaxClears

Unset == [kind |-> "unset", num |-> 0, den |-> 1]

\* a run of the script starts with none of main's locals bound
FreshLocals ==
    /\ start_date' = 0
    /\ end_date' = 0
    /\ selected_categories' = {}
    /\ filtered_df' = <<>>
    /\ total_sales' = 0
    /\ total_orders' = 0
    /\ avg_order_value' = Unset
    /\ unique_products' = 0
    /\ top_products' = <<>>
    /\ top_quantity' = <<>>
    /\ category_perf' = <<>>
    /\ yearly_sales' = <<>>
    /\ growth' = Unset
    /\ raised' = "none"

\* line 68, the script's first step: the cache is read; a hit returns the
\* memoized frame, a miss goes on to the compute lock
Lookup(t) ==
    /\ pc[t] = "idle"
    /\ myCache' = [myCache EXCEPT ![t] = cacheGen]
    /\ IF cacheVal[cacheGen].has
       THEN /\ df' = [df EXCEPT ![t] = cacheVal[cacheGen].value]
            /\ pc' = [pc EXCEPT ![t] = "have_df"]
       ELSE /\ pc' = [pc EXCEPT ![t] = "miss"]
            /\ UNCHANGED df
    /\ FreshLocals
    /\ UNCHANGED <<sessions, window, bitgen, rng, cacheGen, cacheVal, lock,
                   clears, runs, i, data>>

\* the compute lock of the value key is taken before the value is computed
AcquireLock(t) ==
    /\ pc[t] = "miss"
    /\ lock[myCache[t]] = 0
    /\ lock' = [lock EXCEPT ![myCache[t]] = t]
    /\ pc' = [pc EXCEPT ![t] = "locked"]
    /\ UNCHANGED <<sessions, window, bitgen, rng, cacheGen, cacheVal, clears,
                   runs, myCache, i, data, df, queryVars>>

\* variant: the holder of the lock computes without reading the cache again
RecheckBlind(t) ==
    /\ pc[t] = "locked"
    /\ pc' = [pc EXCEPT ![t] = "body"]
    /\ UNCHANGED <<sessions, window, bitgen, rng, cacheGen, cacheVal, lock,
                   clears, runs, myCache, i, data, df, queryVars>>

\* under the lock the cache is read again: another thread may have computed
\* the value meanwhile; only on a second miss is the function called
Recheck(t) ==
    /\ pc[t] = "locked"
    /\ IF cacheVal[myCache[t]].has
       THEN /\ df' = [df EXCEPT ![t] = cacheVal[myCache[t]].value]
            /\ lock' = [lock EXCEPT ![myCache[t]] = 0]
            /\ pc' = [pc EXCEPT ![t] = "have_df"]
       ELSE /\ pc' = [pc EXCEPT ![t] = "body"]
            /\ UNCHANGED <<df, lock>>
    /\ UNCHANGED <<sessions, window, bitgen, rng, cacheGen, cacheVal, clears,
                   runs, myCache, i, data, queryVars>>

\* lines 18-29: the body starts by seeding the process-wide generator
SeedGenerator(t) ==
    /\ pc[t] = "body"
    /\ runs' = runs + 1
    /\ rng' = SeedState(bitgen)
    /\ data' = [data EXCEPT ![t] = <<>>]
    /\ i' = [i EXCEPT ![t] = 1]
    /\ pc' = [pc EXCEPT ![t] = "loop"]
    /\ UNCHANGED <<sessions, window, bitgen, cacheGen, cacheVal, lock, clears,
                   myCache, df, queryVars>>

\* lines 30-46: one iteration of the loop over dates
GenerateRow(t) ==
    /\ pc[t] = "loop"
    /\ i[t] <= Len(dates)
    /\ LET g == GenerateOne(dates[i[t]], rng)
       IN /\ data' = [data EXCEPT ![t] = Append(@, g.row)]
          /\ rng' = g.rng
    /\ i' = [i EXCEPT ![t] = @ + 1]
    /\ UNCHANGED <<sessions, window, bitgen, cacheGen, cacheVal, lock, clears,
                   runs, pc, myCache, df, queryVars>>

\* lines 48-60: the loop is over; clean, add the time columns, return
CleanAndReturn(t) ==
    /\ pc[t] = "loop"
    /\ i[t] > Len(dates)
    /\ df' = [df EXCEPT ![t] = CleanFrame(data[t])]
    /\ data' = [data EXCEPT ![t] = <<>>]
    /\ pc' = [pc EXCEPT ![t] = "computed"]
    /\ UNCHANGED <<sessions, window, bitgen, rng, cacheGen, cacheVal, lock,
                   clears, runs, myCache, i, queryVars>>

\* the computed value is written to the cache and the lock released
StoreResult(t) ==
    /\ pc[t] = "computed"
    /\ cacheVal' = [cacheVal EXCEPT ![myCache[t]] = [has |-> TRUE, value |-> df[t]]]
    /\ lock' = [lock EXCEPT ![myCache[t]] = 0]
    /\ pc' = [pc EXCEPT ![t] = "have_df"]
    /\ UNCHANGED <<sessions, window, bitgen, rng, cacheGen, clears, runs,
                   myCache, i, data, df, queryVars>>

\* st.cache_data.clear(): every function cache is emptied and dropped; later
\* calls work on a fresh Cache object with locks of its own
ClearCache ==
    /\ clears < MaxClears
    /\ clears' = clears + 1
    /\ cacheGen' = cacheGen + 1
    /\ cacheVal' = [c \in CacheIds |-> NoEntry]
    /\ UNCHANGED <<sessions, window, bitgen, rng, lock, runs, pc, myCache, i,
                   data, df, queryVars>>

----------------------------------------------------------------------------
(* main, lines 63-225: one run of the script once the frame is at hand *)

\* values the date-range widget can hand back: dates between min_date and
\* max_date
DatePicks(rows) ==
    {d \in {MinDate(rows) + 3 * k : k \in 0..(NumDatePicks - 1)} : d <= MaxDate(rows)}
        \cup {MaxDate(rows)}

\* the date-range widget hands back both ends; the script runs to its end
Main(t) ==
    /\ pc[t] = "have_df"
    /\ \E from \in DatePicks(df[t]), to \in DatePicks(df[t]),
          cats \in SUBSET UniqueCategories(df[t]) :
          LET f == FilterRows(df[t], from, to, cats)
              sales == SumCol(f, "TotalSales")
              yearly == YearlySales(f)
          IN /\ start_date' = from
             /\ end_date' = to
             /\ selected_categories' = cats
             /\ filtered_df' = f
             /\ total_sales' = sales
             /\ total_orders' = Len(f)
             /\ avg_order_value' = Divide(sales, Len(f))
             /\ unique_products' = NUnique(f, "ProductName")
             /\ top_products' = TopProducts(f)
             /\ top_quantity' = TopQuantity(f)
             /\ category_perf' = CategoryPerf(f)
             /\ yearly_sales' = yearly
             /\ growth' = GrowthOf(yearly)
             /\ raised' = "none"
    /\ pc' = [pc EXCEPT ![t] = "idle"]
    /\ UNCHANGED <<sessions, window, bitgen, rng, cacheGen, cacheVal, lock,
                   clears, runs, myCache, i, data, df>>

\* lines 76-81 while only one end of the range is picked: the widget hands back
\* a tuple of one date and the unpacking raises; the run ends there
MainIncompleteRange(t) ==
    /\ pc[t] = "have_df"
    /\ raised' = "ValueError"
    /\ pc' = [pc EXCEPT ![t] = "idle"]
    /\ UNCHANGED <<sessions, window, bitgen, rng, cacheGen, cacheVal, lock,
                   clears, runs, myCache, i, data, df, start_date, end_date,
                   selected_categories, filtered_df, total_sales, total_orders,
                   avg_order_value, unique_products, top_products, top_quantity,
                   category_perf, yearly_sales, growth>>

----------------------------------------------------------------------------
(* Specifications *)

InitFor(S, D) ==
    /\ sessions = S
    /\ window = D
    /\ bitgen \in 0..(NumGenerators - 1)
    /\ rng = 0
    /\ cacheGen = 0
    /\ cacheVal = [c \in CacheIds |-> NoEntry]
    /\ lock = [c \in CacheIds |-> 0]
    /\ clears = 0
    /\ runs = 0
    /\ pc = [t \in S |-> "idle"]
    /\ myCache = [t \in S |-> 0]
    /\ i = [t \in S |-> 1]
    /\ data = [t \in S |-> <<>>]
    /\ df = [t \in S |-> <<>>]
    /\ start_date = 0
    /\ end_date = 0
    /\ selected_categories = {}
    /\ filtered_df = <<>>
    /\ total_sales = 0
    /\ total_orders = 0
    /\ avg_order_value = Unset
    /\ unique_products = 0
    /\ top_products = <<>>
    /\ top_quantity = <<>>
    /\ category_perf = <<>>
    /\ yearly_sales = <<>>
    /\ growth = Unset
    /\ raised = "none"

CachedCall ==
    \/ \E t \in sessions : Lookup(t)
    \/ \E t \in sessions : AcquireLock(t)
    \/ \E t \in sessions : Recheck(t)
    \/ \E t \in sessions : SeedGenerator(t)
    \/ \E t \in sessions : GenerateRow(t)
    \/ \E t \in sessions : CleanAndReturn(t)
    \/ \E t \in sessions : StoreResult(t)

\* one session, the whole window, script reruns with every widget value
Init == InitFor({1}, <<Ordinal(WindowStart), Ordinal(WindowEnd)>>)
Next ==
    \/ CachedCall
    \/ \E t \in sessions : Main(t)
    \/ \E t \in sessions : MainIncompleteRange(t)
Spec == Init /\ [][Next]_vars

\* several sessions asking for the frame at once, over a short window
ShortWindow ==
    <<Ordinal(ShortWindowStart), Ordinal(ShortWindowStart) + ShortWindowDays - 1>>
InitCache == InitFor(1..NumSessions, ShortWindow)
NextCache == CachedCall
SpecCache == InitCache /\ [][NextCache]_vars

\* one session and its script reruns, over the short window
InitShort == InitFor({1}, ShortWindow)
SpecShort == InitShort /\ [][Next]_vars

\* the same, with the cache cleared while sessions are at work
NextClear == NextCache \/ ClearCache
SpecClear == InitCache /\ [][NextClear]_vars

----------------------------------------------------------------------------
(* Helpers of the properties *)

Queried == avg_order_value.kind # "unset"

\* sessions holding a frame returned by generate_sample_data
HasFrame(t) == pc[t] \in {"computed", "have_df"} \/ (pc[t] = "idle" /\ df[t] # <<>>)

AllCategories == {product_categories[k] : k \in 1..Len(product_categories)}

RowSet(rows) == {rows[k] : k \in 1..Len(rows)}

\* the frame the last query was run on
QueriedFrame == df[CHOOSE t \in sessions : pc[t] = "idle" /\ df[t] # <<>>]

Rank(p) == CHOOSE k \in 1..Len(SortedProducts) : SortedProducts[k] = p

\* sum of a column over the filtered rows of one product
Measure(p, col) == SumCol(GroupRows(filtered_df, "ProductName", p), col)

IsTopN(result, n, col) ==
    LET G == {filtered_df[k].ProductName : k \in 1..Len(filtered_df)}
        m == [p \in G |-> Measure(p, col)]
        chosen == {result[j].key : j \in 1..Len(result)}
    IN /\ Len(result) = (IF Cardinality(G) < n THEN Cardinality(G) ELSE n)
       /\ Cardinality(chosen) = Len(result)
       /\ chosen \subseteq G
       /\ \A j \in 1..Len(result) : result[j][col] = m[result[j].key]
       /\ \A p \in G \ chosen : \A q \in chosen :
              \/ m[p] < m[q]
              \/ (m[p] = m[q] /\ Rank(q) < Rank(p))
       /\ \A j \in 1..Len(result) : \A k \in (j + 1)..Len(result) :
              \/ result[j][col] > result[k][col]
              \/ (result[j][col] = result[k][col]
                    /\ Rank(result[j].key) < Rank(result[k].key))

----------------------------------------------------------------------------
(* Properties *)

\* C1: the filtered frame holds exactly the rows of the frame whose date lies
\* in [start_date, end_date], both ends included, and whose category is
\* selected; with no category selected it is empty.
C1_FilterExact ==
    Queried =>
        LET frame == QueriedFrame
            want == {k \in 1..Len(frame) :
                        /\ start_date <= frame[k].OrderDate
                        /\ frame[k].OrderDate <= end_date
                        /\ frame[k].ProductCategory \in selected_categories}
        IN /\ RowSet(filtered_df) = {frame[k] : k \in want}
           /\ Len(filtered_df) = Cardinality(want)
           /\ (selected_categories = {} => filtered_df = <<>>)

C1_Witness ==
    /\ Queried
    /\ selected_categories # AllCategories
    /\ \E k \in 1..Len(filtered_df) : filtered_df[k].OrderDate = end_date
    /\ \E k \in 1..Len(filtered_df) : filtered_df[k].OrderDate = start_date
    /\ \E k \in 1..Len(QueriedFrame) :
          /\ QueriedFrame[k].OrderDate > end_date
          /\ QueriedFrame[k].ProductCategory \in selected_categories
    /\ Len(filtered_df) >= 2

\* C2: with no filtered row, the average order value ends in
\* DivisionUndefinedError and in nothing else.
C2_AverageRaises ==
    (Queried /\ total_orders = 0) =>
        (raised = "DivisionUndefinedError" /\ avg_order_value.kind \notin {"nan", "value"})

\* C3: a date range with start after end is refused with InvalidRangeError
\* before anything is filtered or computed.
C3_RangeRefused ==
    start_date > end_date => (raised = "InvalidRangeError" /\ ~Queried)

\* C4: every row generated, of a returned frame, and of a filtered frame, has a positive
\* quantity, a positive unit price, and total sales equal to quantity times
\* unit price, December rows included.
C4_RowInvariant ==
    LET ok(r) == r.Quantity > 0 /\ r.UnitPrice > 0
                    /\ r.TotalSales = r.Quantity * r.UnitPrice
    IN /\ \A t \in sessions : \A k \in 1..Len(data[t]) : ok(data[t][k])
       /\ \A t \in sessions : HasFrame(t) =>
              \A k \in 1..Len(df[t]) : ok(df[t][k])
       /\ \A k \in 1..Len(filtered_df) : ok(filtered_df[k])

C4_Witness ==
    \E t \in sessions :
        /\ pc[t] = "have_df"
        /\ \E k \in 1..Len(df[t]) : df[t][k].Month = 12 /\ df[t][k].Quantity > 4
        /\ \E k \in 1..Len(df[t]) : df[t][k].Month = 12 /\ df[t][k].Quantity = 1

\* C5: the returned frame holds one row per day of 2022-01-01..2023-12-31,
\* cleaning drops nothing, and the query over all categories and the whole
\* range counts 730 orders.
C5_OneRowPerDay ==
    /\ \A t \in sessions : HasFrame(t) =>
          /\ [k \in 1..Len(df[t]) |-> df[t][k].OrderDate] = dates
          /\ Len(df[t]) = 730
    /\ (Queried /\ start_date = Ordinal(WindowStart) /\ end_date = Ordinal(WindowEnd)
          /\ selected_categories = AllCategories) => total_orders = 730

C5_Witness ==
    /\ Queried
    /\ start_date = Ordinal(WindowStart)
    /\ end_date = Ordinal(WindowEnd)
    /\ selected_categories = AllCategories
    /\ total_orders > 0

C8_TopN ==
    Queried =>
        /\ IsTopN(top_products, TopRevenueN, "TotalSales")
        /\ IsTopN(top_quantity, TopQuantityN, "Quantity")

C8_Witness ==
    /\ Queried
    /\ Len(top_quantity) = TopQuantityN
    /\ \E k \in 1..Len(filtered_df) :
          LET p == filtered_df[k].ProductName
          IN /\ \A j \in 1..Len(top_quantity) : top_quantity[j].key # p
             /\ Measure(p, "Quantity") = top_quantity[TopQuantityN].Quantity
    /\ \E j \in 1..(TopQuantityN - 1) :
          top_quantity[j].Quantity = top_quantity[j + 1].Quantity

C10_Deterministic ==
    \A t, u \in sessions :
        (pc[t] \in {"computed", "have_df"} /\ pc[u] \in {"computed", "have_df"})
            => df[t] = df[u]

====
